---- MODULE Spec2Model ----
(***************************************************************************)
(* A model of s3-nix-channel: the channel directory kept in an S3 bucket   *)
(* (src/persistent.rs) and the redirect service that serves it             *)
(* (src/bin/s3-nix-channel/main.rs).                                       *)
(*                                                                         *)
(* Strings are sequences of atoms: "foo.tar.xz" is <<"foo", ".tar.xz">>,   *)
(* "dir/v3.tar.xz" is <<"dir", "/", "v3", ".tar.xz">>.  An Option<T> is a  *)
(* sequence of length 0 (None) or 1 (Some).                                *)
(*                                                                         *)
(* A load of the configuration reads the bucket in one step; which of its  *)
(* reads fail is chosen freely.  Spec is the service with one updating     *)
(* tool, SpecService the service alone, SpecUpdate two updating tools.     *)
(***************************************************************************)
EXTENDS Naturals, Sequences, FiniteSets

VARIABLES
    store,      \* the bucket: object key -> object
    phase,      \* main: "boot" | "serving" | "exited"
    jwtKey,     \* main: jwt_public_key, the key of the auth layer if any
    channels,   \* Config.channels, the ArcSwap<ChannelsConfig> slot
    pollPc,     \* poll_config_file: "unspawned", or "ticking" once spawned
    lastLoad,   \* the service's last load: the reads that failed, its result
    rpc,        \* the request handler: "idle" | "signing"
    rroute,     \* the route of the running or last request that was handled
    rpath,      \* the handler: the path of the running or last request
    rlatest,    \* handle_channel: the local latest_object
    rlink,      \* handle_channel: the Link header built before presigning
    rsnap,      \* the snapshot latest_object_key loaded for this request
    rseen,      \* every snapshot the slot held while the request was running
    resp,       \* the last response of handle_channel
    upc,        \* update_channel, per caller: "idle" | "loading" | "uploading"
                \* | "writing"
    uchan,      \* update_channel: channel_name
    ufile,      \* update_channel: file
    uchannel,   \* update_channel: the local `channel`
    ures,       \* the result of the last update_channel call that returned
    uoverlap,   \* whether the call ran while another call on the channel ran
    udone,      \* the channel and identifier of the last call that returned
                \* Ok, while no later call on that channel has been made
    nUpdates,   \* number of update_channel calls started
    nOk         \* number of update_channel calls that returned Ok

vars == <<store, phase, jwtKey, channels, pollPc, lastLoad, rpc, rroute, rpath,
          rlatest, rlink, rsnap, rseen, resp, upc, uchan, ufile, uchannel, ures,
          uoverlap, udone, nUpdates, nOk>>

rvars == <<rpc, rroute, rpath, rlatest, rlink, rsnap, rseen, resp>>
uvars == <<upc, uchan, ufile, uchannel, ures, uoverlap, udone, nUpdates, nOk>>
pvars == <<pollPc, lastLoad>>

\* The number of update_channel calls a behaviour of the updating tool alone
\* may start, and the number a behaviour with the service running may start.
MaxUpdates == 2
MaxServedUpdates == 1

----------------------------------------------------------------------------
\* Strings

TARXZ == ".tar.xz"
JSON == ".json"
SLASH == "/"
\* A character http::HeaderValue::from_str rejects (a line feed).
LF == "<LF>"

None == <<>>
Some(x) == <<x>>

\* A check that accepts every non-empty string
ends_with_nothing(s, suffix) ==
    Len(s) > 0

\* str::ends_with
ends_with(s, suffix) ==
    Len(s) > 0 /\ s[Len(s)] = suffix

\* str::strip_suffix: Some(the string without the suffix), or None
strip_suffix(s, suffix) ==
    IF ends_with(s, suffix) THEN Some(SubSeq(s, 1, Len(s) - 1)) ELSE None

\* Path::file_name: the last component of the path
RECURSIVE file_name(_)
file_name(p) ==
    IF \E i \in 1..Len(p) : p[i] = SLASH
    THEN file_name(Tail(p))
    ELSE p

\* format!("{channel_name}.json")
ConfigFile(channel_name) == channel_name \o <<JSON>>

\* "channels.json"
IndexKey == <<"channels", JSON>>

\* format!("{latest_object}.tar.xz")
ArtifactKey(latest_object) == latest_object \o <<TARXZ>>

BaseUrl == "https://foo.com"

\* format!("<{}/permanent/{latest_object}.tar.xz>; rel=\"immutable\"", base_url)
LinkValue(latest_object) ==
    <<"<", BaseUrl, "/permanent/">> \o latest_object \o <<TARXZ, ">; rel=immutable">>

\* HeaderValue::from_str: fails on a control character
HeaderValueOk(s) ==
    \A i \in 1..Len(s) : s[i] # LF

----------------------------------------------------------------------------
\* Objects of the bucket.  A JSON document is the record of the fields the
\* two deserializers look at; a field it does not have is None.

Garbage == [kind |-> "garbage", channels |-> None, latest |-> None,
            previous |-> None, data |-> ""]
JsonDoc(chs, lat, prev) ==
    [kind |-> "json", channels |-> chs, latest |-> lat, previous |-> prev,
     data |-> ""]
Blob(d) == [kind |-> "blob", channels |-> None, latest |-> None,
            previous |-> None, data |-> d]

\* struct ChannelConfig
ChannelConfig(lat, prev) == [latest |-> lat, previous |-> prev]

Ok(v) == [ok |-> TRUE, val |-> Some(v)]
Err == [ok |-> FALSE, val |-> None]

\* Client::read_file: the object's bytes, or an error when the GET fails
\* (the object does not exist, or the store is unreachable: key \in failed)
read_file(st, failed, key) ==
    IF key \in failed \/ key \notin DOMAIN st THEN Err ELSE Ok(st[key])

\* put_object: the bucket with the object stored under the key
Put(st, key, obj) ==
    [k \in DOMAIN st \cup {key} |-> IF k = key THEN obj ELSE st[k]]

\* serde_json::from_slice::<PersistentChannelsConfig>
ParseIndex(obj) ==
    IF obj.kind = "json" /\ obj.channels # None THEN Ok(obj.channels[1]) ELSE Err

\* serde_json::from_slice::<ChannelConfig>; `previous` is #[serde(default)]
ParseChannelConfig(obj) ==
    IF obj.kind = "json" /\ obj.latest # None
    THEN Ok(ChannelConfig(obj.latest[1],
                          IF obj.previous = None THEN <<>> ELSE obj.previous[1]))
    ELSE Err

\* A serializer that writes the latest field alone
SerializeLatestOnly(c) ==
    JsonDoc(None, Some(c.latest), None)

\* serde_json::to_vec_pretty(&channel): both fields are always written.
\* Serializing two string fields into a Vec<u8> has no failing case.
SerializeChannelConfig(c) ==
    JsonDoc(None, Some(c.latest), Some(c.previous))

----------------------------------------------------------------------------
\* struct ChannelsConfig: channel name -> ChannelConfig (a BTreeMap)

EmptyConfig == [n \in {} |-> ChannelConfig(<<>>, <<>>)]

\* BTreeMap::insert
Insert(m, k, v) ==
    [x \in DOMAIN m \cup {k} |-> IF x = k THEN v ELSE m[x]]

\* ChannelsConfig::channel: a copy of the channel's configuration, if any
channel(cfg, channel_name) ==
    IF channel_name \in DOMAIN cfg THEN Some(cfg[channel_name]) ELSE None

\* The loop of load_channels_config over persistent_config.channels
RECURSIVE LoadChannels(_, _, _, _)
LoadChannels(st, failed, names, acc) ==
    IF names = <<>> THEN acc
    ELSE LET channel_name == Head(names)
             bytes == read_file(st, failed, ConfigFile(channel_name))
             channel_config == IF bytes.ok THEN ParseChannelConfig(bytes.val[1])
                               ELSE Err
         IN  LoadChannels(st, failed, Tail(names),
                          IF channel_config.ok
                          THEN Insert(acc, channel_name, channel_config.val[1])
                          ELSE acc)

\* A load that fails as soon as one indexed descriptor cannot be read or parsed
load_channels_config_strict(st, failed) ==
    LET bytes == read_file(st, failed, IndexKey)
        persistent_config == IF bytes.ok THEN ParseIndex(bytes.val[1]) ELSE Err
        broken(name) ==
            LET b == read_file(st, failed, ConfigFile(name))
            IN  ~b.ok \/ ~ParseChannelConfig(b.val[1]).ok
    IN  IF /\ persistent_config.ok
           /\ \A i \in 1..Len(persistent_config.val[1]) :
                 ~broken(persistent_config.val[1][i])
        THEN Ok(LoadChannels(st, failed, persistent_config.val[1], EmptyConfig))
        ELSE Err

\* Client::load_channels_config
load_channels_config(st, failed) ==
    LET bytes == read_file(st, failed, IndexKey)
        persistent_config == IF bytes.ok THEN ParseIndex(bytes.val[1]) ELSE Err
    IN  IF persistent_config.ok
        THEN Ok(LoadChannels(st, failed, persistent_config.val[1], EmptyConfig))
        ELSE Err

\* The reads a load of the bucket makes: the index and, when it parses, the
\* descriptor of every indexed name
Reads(st) ==
    LET bytes == read_file(st, {}, IndexKey)
        persistent_config == IF bytes.ok THEN ParseIndex(bytes.val[1]) ELSE Err
    IN  {IndexKey} \cup
        ( IF persistent_config.ok
          THEN {ConfigFile(persistent_config.val[1][i]) :
                   i \in 1..Len(persistent_config.val[1])}
          ELSE {} )

\* The sets of reads the store may fail during one load: the read of the
\* index alone (nothing is read after it), or any of the descriptor reads
Failures(st) ==
    {{IndexKey}} \cup SUBSET (Reads(st) \ {IndexKey})

\* Client::sign_request: the presigned URI of the object key
sign_request(object_key) == <<"presigned:">> \o object_key

----------------------------------------------------------------------------
\* The inputs the model draws from

ChanA == <<"a">>
ChanB == <<"b">>
ChannelNames == {ChanA, ChanB}

V1 == <<"v1">>

\* The paths requested from /channel/
RequestPaths == {ChanA \o <<TARXZ>>, ChanB \o <<TARXZ>>, ChanA}

\* The files given to update_channel: utf8 is whether the path is valid UTF-8.
\* The second one has the name of the artifact channel a starts with.
UpdateFiles ==
    { [path |-> <<"v2", TARXZ>>, utf8 |-> TRUE, data |-> "d2"],
      [path |-> <<"dir", SLASH, "v1", TARXZ>>, utf8 |-> TRUE, data |-> "d9"],
      [path |-> <<"dir", SLASH, "v3", TARXZ>>, utf8 |-> TRUE, data |-> "d3"],
      [path |-> <<"dir", SLASH, "v2">>, utf8 |-> TRUE, data |-> "d2"],
      [path |-> <<"v2", TARXZ>>, utf8 |-> FALSE, data |-> "d2"] }

\* The files given to update_channel while the service runs
ServedUpdateFiles ==
    {f \in UpdateFiles : f.path # <<"dir", SLASH, "v3", TARXZ>>}

\* The callers of update_channel; a call is made by the first idle one
Updaters == {1, 2}
\* The callers of update_channel while the service runs
ServedUpdaters == {1}

EmptyStore == [k \in {} |-> Garbage]

\* Channel a points to v1, and v1.tar.xz is in the bucket.
BaseStore ==
    Put(Put(EmptyStore, ConfigFile(ChanA),
            SerializeChannelConfig(ChannelConfig(V1, <<>>))),
        ArtifactKey(V1), Blob("d1"))

GoodIndex == JsonDoc(Some(<<ChanA, ChanB>>), None, None)

\* The buckets the service may be started on
InitStores ==
    { \* b.json has no `previous` field, and its latest holds a line feed
      Put(Put(Put(BaseStore, IndexKey, GoodIndex),
              ConfigFile(ChanB), JsonDoc(None, Some(<<"w", LF>>), None)),
          ArtifactKey(<<"w", LF>>), Blob("d0")),
      \* b.json does not parse
      Put(Put(BaseStore, IndexKey, GoodIndex), ConfigFile(ChanB), Garbage),
      \* b is indexed and has no b.json
      Put(BaseStore, IndexKey, GoodIndex),
      \* b.json exists and b is not indexed
      Put(Put(BaseStore, IndexKey, JsonDoc(Some(<<ChanA>>), None, None)),
          ConfigFile(ChanB), SerializeChannelConfig(ChannelConfig(V1, <<>>))),
      \* channels.json does not parse
      Put(BaseStore, IndexKey, Garbage) }

\* A response; `swapped` records whether the slot was replaced while the
\* request was running
NoResponse ==
    [status |-> "none", location |-> None, link |-> None, error |-> "",
     swapped |-> FALSE]
ErrorResponse(e) ==
    [status |-> "error", location |-> None, link |-> None, error |-> e,
     swapped |-> FALSE]
\* (headers, Redirect::temporary(uri))
RedirectResponse(uri, link, swapped) ==
    [status |-> "TemporaryRedirect", location |-> Some(uri), link |-> Some(link),
     error |-> "", swapped |-> swapped]

\* The result update_channel returns; `io` records whether a read of its
\* load failed in the store
Result(result, io) == [result |-> result, io |-> io]

NoFile == [path |-> <<>>, utf8 |-> TRUE, data |-> ""]
NoChannel == ChannelConfig(<<>>, <<>>)

Init ==
    /\ store \in InitStores
    /\ phase = "boot"
    /\ jwtKey = None
    /\ channels = EmptyConfig
    /\ pollPc = "unspawned"
    /\ lastLoad = [failed |-> {}, ok |-> TRUE]
    /\ rpc = "idle"
    /\ rroute = ""
    /\ rpath = <<>>
    /\ rlatest = <<>>
    /\ rlink = <<>>
    /\ rsnap = None
    /\ rseen = {}
    /\ resp = NoResponse
    /\ upc = [u \in Updaters |-> "idle"]
    /\ uchan = [u \in Updaters |-> <<>>]
    /\ ufile = [u \in Updaters |-> NoFile]
    /\ uchannel = [u \in Updaters |-> NoChannel]
    /\ ures = Result("none", FALSE)
    /\ uoverlap = [u \in Updaters |-> FALSE]
    /\ udone = None
    /\ nUpdates = 0
    /\ nOk = 0

----------------------------------------------------------------------------
\* main and poll_config_file

\* The key a token must be signed with
PublicKey == "k1"

\* The --jwt-pem argument: absent, a file holding the RSA public key, or a
\* file that cannot be read or decoded
KeyFiles == {None, Some("key.pem"), Some("bad.pem")}

\* jwt_public_key: no key without the argument, the decoded key, or an error
ReadKey(jwt_pem) ==
    IF jwt_pem = None THEN Ok(None)
    ELSE IF jwt_pem[1] = "key.pem" THEN Ok(Some(PublicKey))
    ELSE Err

\* A main that goes on to serve with an empty configuration when its load
\* fails
StartupServingAnyway ==
    /\ phase = "boot"
    /\ \E failed \in Failures(store), jwt_pem \in KeyFiles, listening \in BOOLEAN :
         LET r == load_channels_config(store, failed)
             key == ReadKey(jwt_pem)
         IN  /\ lastLoad' = [failed |-> failed, ok |-> r.ok]
             /\ channels' = IF r.ok THEN r.val[1] ELSE channels
             /\ jwtKey' = IF key.ok THEN key.val[1] ELSE jwtKey
             /\ pollPc' = IF key.ok THEN "ticking" ELSE pollPc
             /\ phase' = IF key.ok /\ listening THEN "serving" ELSE "exited"
    /\ UNCHANGED <<store, rvars, uvars>>

\* main up to axum::serve: the first load fills the slot, the key is read,
\* the refresh task is spawned and the listener is bound; main returns the
\* error when the load, the key or the listener fails, and the process ends
\* (with the refresh task, if it was spawned, before its first load)
Startup ==
    /\ phase = "boot"
    /\ \E failed \in Failures(store), jwt_pem \in KeyFiles, listening \in BOOLEAN :
         LET r == load_channels_config(store, failed)
             key == ReadKey(jwt_pem)
         IN  /\ lastLoad' = [failed |-> failed, ok |-> r.ok]
             /\ channels' = IF r.ok THEN r.val[1] ELSE channels
             /\ jwtKey' = IF r.ok /\ key.ok THEN key.val[1] ELSE jwtKey
             /\ pollPc' = IF r.ok /\ key.ok THEN "ticking" ELSE pollPc
             /\ phase' = IF r.ok /\ key.ok /\ listening
                         THEN "serving"
                         ELSE "exited"
    /\ UNCHANGED <<store, rvars, uvars>>

\* A loop that stores an empty configuration when the load fails
PollPublishOrClear(cur, r) ==
    IF r.ok THEN r.val[1] ELSE EmptyConfig

\* A loop that merges the loaded configuration into the one the slot holds
PollPublishMerging(cur, r) ==
    IF r.ok
    THEN [n \in DOMAIN cur \cup DOMAIN r.val[1] |->
             IF n \in DOMAIN r.val[1] THEN r.val[1][n] ELSE cur[n]]
    ELSE cur

\* What the slot holds after the tick whose load returned r
PollPublish(cur, r) ==
    IF r.ok THEN r.val[1] ELSE cur

\* Where the loop is after the tick whose load returned r: both arms of the
\* match go back to interval.tick()
PollContinue(r) ==
    "ticking"

\* One pass of the loop of poll_config_file: the tick, the load, and the
\* store into the slot when the load succeeded
Poll ==
    /\ phase = "serving"
    /\ pollPc = "ticking"
    /\ \E failed \in Failures(store) :
         LET r == load_channels_config(store, failed)
         IN  /\ lastLoad' = [failed |-> failed, ok |-> r.ok]
             /\ channels' = PollPublish(channels, r)
             /\ pollPc' = PollContinue(r)
    /\ rseen' = IF rpc = "signing" /\ rroute = "channel"
               THEN rseen \cup {channels'}
               ELSE rseen
    /\ UNCHANGED <<store, phase, jwtKey, rpc, rroute, rpath, rlatest, rlink,
                   rsnap, resp, uvars>>

----------------------------------------------------------------------------
\* handle_channel

\* A lookup that answers with the oldest archived identifier when there is one
latest_object_key_archived(cfg, channel_name) ==
    LET c == channel(cfg, channel_name)
    IN  IF c = None THEN None
        ELSE IF c[1].previous # <<>> THEN Some(c[1].previous[1])
        ELSE Some(c[1].latest)

\* Config::latest_object_key: one load of the slot, then a copy of `latest`
latest_object_key(cfg, channel_name) ==
    LET c == channel(cfg, channel_name)
    IN  IF c = None THEN None ELSE Some(c[1].latest)

\* The object key handle_channel presigns
PresignKey(latest_object) ==
    ArtifactKey(latest_object)

\* handle_channel returns the error
ReqFail(path, e) ==
    /\ rpc' = "idle"
    /\ rroute' = "channel"
    /\ rpath' = path
    /\ rlatest' = <<>>
    /\ rlink' = <<>>
    /\ rsnap' = None
    /\ rseen' = {}
    /\ resp' = ErrorResponse(e)

\* handle_channel up to sign_request(..).await: the suffix check, the
\* lookup in the slot and the Link header run without a suspension point
ReqResolve(path) ==
    /\ phase = "serving"
    /\ rpc = "idle"
    /\ LET channel_name == strip_suffix(path, TARXZ)
       IN  IF channel_name = None
           THEN ReqFail(path, "InvalidFile")
           ELSE LET latest_object == latest_object_key(channels, channel_name[1])
                IN  IF latest_object = None
                    THEN ReqFail(path, "NoSuchChannel")
                    ELSE IF ~HeaderValueOk(LinkValue(latest_object[1]))
                    THEN ReqFail(path, "Unknown")
                    ELSE /\ rpc' = "signing"
                         /\ rroute' = "channel"
                         /\ rpath' = path
                         /\ rlatest' = latest_object[1]
                         /\ rlink' = LinkValue(latest_object[1])
                         /\ rsnap' = Some(channels)
                         /\ rseen' = {channels}
                         /\ resp' = NoResponse
    /\ UNCHANGED <<store, phase, jwtKey, channels, pvars, uvars>>

\* A handler that looks the channel up again in the slot when it presigns
ReqSignReread ==
    /\ rpc = "signing"
    /\ rroute = "channel"
    /\ \E signed \in BOOLEAN :
         LET again == latest_object_key(channels, strip_suffix(rpath, TARXZ)[1])
             key == IF again = None THEN rlatest ELSE again[1]
         IN  resp' = IF signed
                     THEN RedirectResponse(sign_request(PresignKey(key)), rlink,
                                           Cardinality(rseen) > 1)
                     ELSE ErrorResponse("PresignFailure")
    /\ rpc' = "idle"
    /\ rlatest' = <<>>
    /\ rlink' = <<>>
    /\ rsnap' = None
    /\ rseen' = {}
    /\ UNCHANGED <<store, phase, jwtKey, channels, pvars, rroute, rpath, uvars>>

\* sign_request returns, and handle_channel with it
ReqSign ==
    /\ rpc = "signing"
    /\ rroute = "channel"
    /\ \E signed \in BOOLEAN :
         resp' = IF signed
                 THEN RedirectResponse(sign_request(PresignKey(rlatest)), rlink,
                                       Cardinality(rseen) > 1)
                 ELSE ErrorResponse("PresignFailure")
    /\ rpc' = "idle"
    /\ rlatest' = <<>>
    /\ rlink' = <<>>
    /\ rsnap' = None
    /\ rseen' = {}
    /\ UNCHANGED <<store, phase, jwtKey, channels, pvars, rroute, rpath, uvars>>

----------------------------------------------------------------------------
\* handle_persistent

\* Redirect::temporary(uri), without a Link header
PermanentRedirect(uri) ==
    [status |-> "TemporaryRedirect", location |-> Some(uri), link |-> None,
     error |-> "", swapped |-> FALSE]

\* handle_persistent up to sign_request(..).await: the suffix check
ReqPermanent(path) ==
    /\ phase = "serving"
    /\ rpc = "idle"
    /\ rroute' = "permanent"
    /\ rpath' = path
    /\ rlatest' = <<>>
    /\ rlink' = <<>>
    /\ rsnap' = None
    /\ rseen' = {}
    /\ IF ~ends_with(path, TARXZ)
       THEN /\ rpc' = "idle"
            /\ resp' = ErrorResponse("InvalidFile")
       ELSE /\ rpc' = "signing"
            /\ resp' = NoResponse
    /\ UNCHANGED <<store, phase, jwtKey, channels, pvars, uvars>>

\* sign_request returns, and handle_persistent with it
PermSign ==
    /\ rpc = "signing"
    /\ rroute = "permanent"
    /\ \E signed \in BOOLEAN :
         resp' = IF signed
                 THEN PermanentRedirect(sign_request(rpath))
                 ELSE ErrorResponse("PresignFailure")
    /\ rpc' = "idle"
    /\ UNCHANGED <<store, phase, jwtKey, channels, pvars, rroute, rpath, rlatest,
                   rlink, rsnap, rseen, uvars>>

----------------------------------------------------------------------------
\* auth_middleware

\* A password that is a JWT: the key its signature verifies under (none when
\* the token was altered after signing), and its exp and nbf claims
Token(signer, exp, nbf) ==
    [signer |-> signer, exp |-> exp, nbf |-> nbf]

\* An Authorization header: its scheme prefix, whether the rest is base64 of
\* UTF-8 text, and the password after the colon of that text, if any
Header(scheme, b64, password) ==
    Some([scheme |-> scheme, b64 |-> b64, password |-> password])

\* The headers with a token that passes the validation
ValidHeaders ==
    { Header("Basic ", TRUE, Some(Token(PublicKey, "future", "absent"))) }

\* The Authorization headers requests arrive with
Credentials ==
    ValidHeaders \cup
    { None,
      Header("Bearer ", TRUE, Some(Token(PublicKey, "future", "absent"))),
      Header("Basic ", FALSE, None),
      Header("Basic ", TRUE, None),
      Header("Basic ", TRUE, Some(Token("", "future", "absent"))),
      Header("Basic ", TRUE, Some(Token(PublicKey, "past", "absent"))),
      Header("Basic ", TRUE, Some(Token(PublicKey, "future", "future"))) }

\* The Authorization headers requests arrive with while the bucket is being
\* updated: none, a valid token, an expired token
ServedCredentials ==
    ValidHeaders \cup
    { None,
      Header("Basic ", TRUE, Some(Token(PublicKey, "past", "absent"))) }

\* extract_auth_password
extract_auth_password(headers) ==
    IF headers = None THEN None
    ELSE IF headers[1].scheme # "Basic " THEN None
    ELSE IF ~headers[1].b64 THEN None
    ELSE headers[1].password

\* A validation that does not look at the exp claim
jwt_decode_any_exp(jwt_str, decoding_key) ==
    /\ jwt_str.signer = decoding_key
    /\ jwt_str.nbf # "future"

\* jsonwebtoken::decode under the Validation of auth_middleware: RS256
\* signature, exp required and not passed, nbf not in the future
jwt_decode(jwt_str, decoding_key) ==
    /\ jwt_str.signer = decoding_key
    /\ jwt_str.exp = "future"
    /\ jwt_str.nbf # "future"

\* auth_middleware: whether the request is handed to next.run
auth_middleware(decoding_key, headers) ==
    LET jwt_str == extract_auth_password(headers)
    IN  jwt_str # None /\ jwt_decode(jwt_str[1], decoding_key)

\* StatusCode::UNAUTHORIZED.into_response()
Unauthorized ==
    [status |-> "Unauthorized", location |-> None, link |-> None, error |-> "",
     swapped |-> FALSE]

\* auth_middleware returns the unauthorized response: no handler runs
ReqReject ==
    /\ phase = "serving"
    /\ rpc = "idle"
    /\ rpc' = "idle"
    /\ rroute' = ""
    /\ rpath' = <<>>
    /\ rlatest' = <<>>
    /\ rlink' = <<>>
    /\ rsnap' = None
    /\ rseen' = {}
    /\ resp' = Unauthorized
    /\ UNCHANGED <<store, phase, jwtKey, channels, pvars, uvars>>

\* The paths requested from /permanent/
PermanentPaths == {<<"v1", TARXZ>>, <<"v1">>}

\* The router: a request goes through the auth layer when main added it,
\* and then to the handler of its route
Request(headers, route, path) ==
    IF jwtKey # None /\ ~auth_middleware(jwtKey[1], headers)
    THEN ReqReject
    ELSE IF route = "channel"
    THEN ReqResolve(path)
    ELSE ReqPermanent(path)

----------------------------------------------------------------------------
\* update_channel

\* object_key: the file name of the path
ObjectKey(file) == file_name(file.path)

\* A basename taken from the whole path instead of the object key
BasenameOfPath(file) == strip_suffix(file.path, TARXZ)[1]

\* basename: the object key without .tar.xz
Basename(file) == strip_suffix(ObjectKey(file), TARXZ)[1]

\* An update that installs the new latest and archives nothing
AdvanceWithoutArchive(ch, basename) ==
    [latest |-> basename, previous |-> ch.previous]

\* An update that keeps only the identifier it archives
AdvanceKeepLast(ch, basename) ==
    [latest |-> basename, previous |-> <<ch.latest>>]

\* channel.previous.push(channel.latest); channel.latest = basename
Advance(ch, basename) ==
    [latest |-> basename, previous |-> Append(ch.previous, ch.latest)]

\* A lookup in the configuration the service holds in its slot
UpdateLookupInSlot(loaded, slot, channel_name) ==
    channel(slot, channel_name)

\* The configuration update_channel looks the channel up in: the one it has
\* just loaded
UpdateLookup(loaded, slot, channel_name) ==
    channel(loaded, channel_name)

\* update_channel returns
UpdReturn(u, result, io) ==
    /\ upc' = [upc EXCEPT ![u] = "idle"]
    /\ uchan' = [uchan EXCEPT ![u] = <<>>]
    /\ ufile' = [ufile EXCEPT ![u] = NoFile]
    /\ uchannel' = [uchannel EXCEPT ![u] = NoChannel]
    /\ uoverlap' = [uoverlap EXCEPT ![u] = FALSE]
    /\ ures' = Result(result, io)
    /\ nOk' = IF result = "Ok" THEN nOk + 1 ELSE nOk
    /\ udone' = IF result = "Ok"
                THEN Some([chan |-> uchan[u], latest |-> uchannel[u].latest])
                ELSE udone

\* update_channel is called
UpdCall(u, channel_name, file, bound) ==
    /\ upc[u] = "idle"
    /\ \A v \in Updaters : v < u => upc[v] # "idle"
    /\ nUpdates < bound
    /\ nUpdates' = nUpdates + 1
    /\ upc' = [upc EXCEPT ![u] = "loading"]
    /\ uchan' = [uchan EXCEPT ![u] = channel_name]
    /\ ufile' = [ufile EXCEPT ![u] = file]
    /\ LET others == {v \in Updaters \ {u} :
                         upc[v] # "idle" /\ uchan[v] = channel_name}
       IN  uoverlap' = [v \in Updaters |->
                           IF v = u THEN others # {}
                           ELSE IF v \in others THEN TRUE
                           ELSE uoverlap[v]]
    /\ udone' = IF udone # None /\ udone[1].chan = channel_name
                THEN None
                ELSE udone
    /\ UNCHANGED <<store, phase, jwtKey, channels, pvars, rvars, uchannel, ures,
                   nOk>>

\* update_channel up to write_file(..).await: the suffix check, the fresh
\* load and the lookup of the channel
UpdLoad(u) ==
    /\ upc[u] = "loading"
    /\ IF ~ufile[u].utf8
       THEN UpdReturn(u, "NotUtf8", FALSE)
       ELSE IF ~ends_with(ufile[u].path, TARXZ)
       THEN UpdReturn(u, "InvalidFileEnding", FALSE)
       ELSE \E failed \in Failures(store) :
            LET channels_config == load_channels_config(store, failed)
                ch == IF channels_config.ok
                      THEN UpdateLookup(channels_config.val[1], channels,
                                        uchan[u])
                      ELSE None
                io == failed # {}
            IN  IF ~channels_config.ok
                THEN UpdReturn(u, "LoadFailed", io)
                ELSE IF ch = None
                THEN UpdReturn(u, "NoSuchChannel", io)
                ELSE /\ upc' = [upc EXCEPT ![u] = "uploading"]
                     /\ uchannel' = [uchannel EXCEPT ![u] = ch[1]]
                     /\ UNCHANGED <<uchan, ufile, ures, uoverlap, udone, nOk>>
    /\ UNCHANGED <<store, phase, jwtKey, channels, pvars, rvars, nUpdates>>

\* An update that writes the advanced descriptor before it uploads the file
UpdUploadPointerFirst(u) ==
    /\ upc[u] = "uploading"
    /\ \E uploaded \in BOOLEAN :
         LET advanced == Advance(uchannel[u], Basename(ufile[u]))
             pointed == Put(store, ConfigFile(uchan[u]),
                            SerializeChannelConfig(advanced))
         IN  IF uploaded
             THEN /\ store' = Put(pointed, ObjectKey(ufile[u]),
                                  Blob(ufile[u].data))
                  /\ upc' = [upc EXCEPT ![u] = "writing"]
                  /\ uchannel' = [uchannel EXCEPT ![u] = advanced]
                  /\ UNCHANGED <<uchan, ufile, ures, uoverlap, udone, nOk>>
             ELSE /\ store' = pointed
                  /\ UpdReturn(u, "UploadFailed", FALSE)
    /\ UNCHANGED <<phase, jwtKey, channels, pvars, rvars, nUpdates>>

\* write_file returns: the input file was read and put under the object
\* key, or one of the two failed and update_channel returns that error
UpdUpload(u) ==
    /\ upc[u] = "uploading"
    /\ \E uploaded \in BOOLEAN :
         IF uploaded
         THEN /\ store' = Put(store, ObjectKey(ufile[u]), Blob(ufile[u].data))
              /\ upc' = [upc EXCEPT ![u] = "writing"]
              /\ uchannel' = [uchannel EXCEPT
                                ![u] = Advance(uchannel[u], Basename(ufile[u]))]
              /\ UNCHANGED <<uchan, ufile, ures, uoverlap, udone, nOk>>
         ELSE /\ store' = store
              /\ UpdReturn(u, "UploadFailed", FALSE)
    /\ UNCHANGED <<phase, jwtKey, channels, pvars, rvars, nUpdates>>

\* An update whose failed descriptor write returns the error of an upload
UpdWriteGenericError(u) ==
    /\ upc[u] = "writing"
    /\ \E written \in BOOLEAN :
         IF written
         THEN /\ store' = Put(store, ConfigFile(uchan[u]),
                              SerializeChannelConfig(uchannel[u]))
              /\ UpdReturn(u, "Ok", FALSE)
         ELSE /\ store' = store
              /\ UpdReturn(u, "UploadFailed", FALSE)
    /\ UNCHANGED <<phase, jwtKey, channels, pvars, rvars, nUpdates>>

\* An update that, having written the descriptor, stores it in the slot of
\* the service as well
UpdWritePublishing(u) ==
    /\ upc[u] = "writing"
    /\ \E written \in BOOLEAN :
         IF written
         THEN /\ store' = Put(store, ConfigFile(uchan[u]),
                              SerializeChannelConfig(uchannel[u]))
              /\ channels' = IF uchan[u] \in DOMAIN channels
                             THEN [channels EXCEPT ![uchan[u]] = uchannel[u]]
                             ELSE channels
              /\ UpdReturn(u, "Ok", FALSE)
         ELSE /\ store' = store
              /\ channels' = channels
              /\ UpdReturn(u, "LeakedTarball", FALSE)
    /\ UNCHANGED <<phase, jwtKey, pvars, rvars, nUpdates>>

\* write_data returns: the descriptor was put, or the put failed and
\* update_channel returns the error that names the leaked tarball
UpdWrite(u) ==
    /\ upc[u] = "writing"
    /\ \E written \in BOOLEAN :
         IF written
         THEN /\ store' = Put(store, ConfigFile(uchan[u]),
                              SerializeChannelConfig(uchannel[u]))
              /\ UpdReturn(u, "Ok", FALSE)
         ELSE /\ store' = store
              /\ UpdReturn(u, "LeakedTarball", FALSE)
    /\ UNCHANGED <<phase, jwtKey, channels, pvars, rvars, nUpdates>>

----------------------------------------------------------------------------

Next ==
    \/ Startup
    \/ Poll
    \/ \E headers \in ServedCredentials, path \in RequestPaths :
          Request(headers, "channel", path)
    \/ \E headers \in ServedCredentials, path \in PermanentPaths :
          Request(headers, "permanent", path)
    \/ ReqSign
    \/ PermSign
    \/ \E u \in ServedUpdaters, n \in ChannelNames, f \in ServedUpdateFiles :
          UpdCall(u, n, f, MaxServedUpdates)
    \/ \E u \in ServedUpdaters : UpdLoad(u)
    \/ \E u \in ServedUpdaters : UpdUpload(u)
    \/ \E u \in ServedUpdaters : UpdWrite(u)

\* The service and one updating tool on one bucket
Spec == Init /\ [][Next]_vars

\* The service alone: nothing is written to the bucket
NextService ==
    \/ Startup
    \/ Poll
    \/ \E headers \in Credentials, path \in RequestPaths :
          Request(headers, "channel", path)
    \/ \E headers \in Credentials, path \in PermanentPaths :
          Request(headers, "permanent", path)
    \/ ReqSign
    \/ PermSign

SpecService == Init /\ [][NextService]_vars

\* Two updating tools on one bucket: the service is never started
NextUpdate ==
    \/ \E u \in Updaters, n \in ChannelNames, f \in UpdateFiles :
          UpdCall(u, n, f, MaxUpdates)
    \/ \E u \in Updaters : UpdLoad(u)
    \/ \E u \in Updaters : UpdUpload(u)
    \/ \E u \in Updaters : UpdWrite(u)

SpecUpdate == Init /\ [][NextUpdate]_vars

----------------------------------------------------------------------------
\* Steps of the request handler, as seen in a pair of states

\* handle_channel ran up to its presign call, or returned an error before it
ResolveStep ==
    /\ rpc = "idle"
    /\ rroute' = "channel"
    /\ <<rpc, rroute, rpath, resp>>' # <<rpc, rroute, rpath, resp>>

\* sign_request returned
SignStep ==
    rpc = "signing" /\ rroute = "channel" /\ rpc' = "idle"

\* The channel a request path names
RequestedChannel(path) == strip_suffix(path, TARXZ)[1]

----------------------------------------------------------------------------
\* C1: a channel-redirect request for <n>.tar.xz whose snapshot holds n
\* reaches the presign call for the key <latest(n)>.tar.xz, latest(n) being
\* the `latest` of n in the snapshot the request read (unless that
\* identifier cannot be put in a Link header), and when presigning succeeds
\* the response is a temporary redirect to the presigned URL of that key.
C1_RedirectToLatest ==
    [][ /\ ( /\ ResolveStep
             /\ ends_with(rpath', TARXZ)
             /\ RequestedChannel(rpath') \in DOMAIN channels
             /\ HeaderValueOk(LinkValue(channels[RequestedChannel(rpath')].latest)) )
           => ( /\ rpc' = "signing"
                /\ rsnap' = Some(channels)
                /\ rlatest' = channels[RequestedChannel(rpath')].latest )
        /\ ( SignStep /\ resp'.error # "PresignFailure" )
           => ( /\ RequestedChannel(rpath) \in DOMAIN rsnap[1]
                /\ resp'.status = "TemporaryRedirect"
                /\ resp'.location =
                     Some(sign_request(
                        rsnap[1][RequestedChannel(rpath)].latest \o <<TARXZ>>)) )
      ]_vars

\* C1 witness: a request for channel a was redirected to v2.tar.xz, the
\* latest of a after an update and a refresh, with v1 archived in `previous`.
C1_Witness ==
    /\ rpc = "idle"
    /\ rpath = ChanA \o <<TARXZ>>
    /\ ChanA \in DOMAIN channels
    /\ channels[ChanA] = ChannelConfig(<<"v2">>, <<V1>>)
    /\ resp.status = "TemporaryRedirect"
    /\ resp.location = Some(<<"presigned:", "v2", TARXZ>>)

\* C2: a request that completes with a redirect, whatever snapshots the
\* refresh loop published while it ran, carries in its Link header and in its
\* presigned object key one identifier, the `latest` of the requested channel
\* in one snapshot the slot held during the request.
C2_OneSnapshot ==
    [][ ( SignStep /\ resp'.status = "TemporaryRedirect" )
        => \E s \in rseen :
              /\ RequestedChannel(rpath) \in DOMAIN s
              /\ resp'.link = Some(LinkValue(s[RequestedChannel(rpath)].latest))
              /\ resp'.location =
                   Some(sign_request(
                      ArtifactKey(s[RequestedChannel(rpath)].latest)))
      ]_vars

\* C2 witness: a request for channel a completed with a redirect to v1 after
\* the slot was replaced, while it ran, by a snapshot in which a points to v2.
C2_Witness ==
    /\ rpc = "idle"
    /\ rpath = ChanA \o <<TARXZ>>
    /\ resp.status = "TemporaryRedirect"
    /\ resp.swapped
    /\ resp.location = Some(<<"presigned:", "v1", TARXZ>>)
    /\ ChanA \in DOMAIN channels
    /\ channels[ChanA].latest = <<"v2">>

----------------------------------------------------------------------------
\* Steps of main and of the refresh loop, and what a load must return

\* One pass of the refresh loop (a pass that changes nothing is a stutter)
PollStep ==
    /\ phase = "serving"
    /\ <<channels, lastLoad, pollPc>>' # <<channels, lastLoad, pollPc>>

\* The first load of main
StartupStep ==
    phase = "boot" /\ phase' # "boot"

\* The index of the bucket was fetched and parsed
IndexLoaded(st, failed) ==
    /\ IndexKey \notin failed
    /\ IndexKey \in DOMAIN st
    /\ st[IndexKey].kind = "json"
    /\ st[IndexKey].channels # None

\* The names listed in the index of the bucket
Indexed(st) ==
    {st[IndexKey].channels[1][i] : i \in 1..Len(st[IndexKey].channels[1])}

\* The descriptor of the channel was fetched and parsed
DescriptorLoaded(st, failed, name) ==
    /\ ConfigFile(name) \notin failed
    /\ ConfigFile(name) \in DOMAIN st
    /\ st[ConfigFile(name)].kind = "json"
    /\ st[ConfigFile(name)].latest # None

\* The descriptor a stored document stands for
DescriptorOf(obj) ==
    [latest |-> obj.latest[1],
     previous |-> IF obj.previous = None THEN <<>> ELSE obj.previous[1]]

----------------------------------------------------------------------------
\* C3 (as claimed): whenever a read of a refresh tick fails, be it the read of
\* the index or of a channel descriptor, every channel that was in the slot
\* before the tick is in the slot after it.
C3_OutageKeepsChannels ==
    [][ ( PollStep /\ lastLoad'.failed # {} )
        => DOMAIN channels \subseteq DOMAIN channels'
      ]_vars

\* C4: a refresh tick whose load fails leaves the slot as it was and leaves
\* the loop running, and the tick after a failed one, when its load succeeds,
\* stores what it loaded in the slot.
C4_FailedTickRetains ==
    [][ /\ ( PollStep /\ ~lastLoad'.ok )
           => ( /\ channels' = channels
                /\ pollPc' = "ticking"
                /\ phase' = "serving" )
        /\ ( PollStep /\ ~lastLoad.ok /\ lastLoad'.ok )
           => ( /\ pollPc' = "ticking"
                /\ DOMAIN channels' =
                     {n \in Indexed(store) :
                         DescriptorLoaded(store, lastLoad'.failed, n)}
                /\ \A n \in DOMAIN channels' :
                     channels'[n] = DescriptorOf(store[ConfigFile(n)]) )
      ]_vars

\* C4 witness: the last tick failed and the slot still holds a at v1, while
\* the bucket already holds a at v2.
C4_Witness ==
    /\ phase = "serving"
    /\ pollPc = "ticking"
    /\ ~lastLoad.ok
    /\ ChanA \in DOMAIN channels
    /\ channels[ChanA].latest = V1
    /\ store[ConfigFile(ChanA)].latest = Some(<<"v2">>)

\* C5: a load (the first one of main, or one of a refresh tick) fails exactly
\* when the index is not fetched or not parsed; otherwise it yields the map
\* of exactly the indexed names whose descriptor was fetched and parsed, each
\* mapped to that descriptor.
C5_LoadResult ==
    [][ ( PollStep \/ StartupStep )
        => /\ lastLoad'.ok <=> IndexLoaded(store, lastLoad'.failed)
           /\ lastLoad'.ok
              => /\ DOMAIN channels' =
                      {n \in Indexed(store) :
                          DescriptorLoaded(store, lastLoad'.failed, n)}
                 /\ \A n \in DOMAIN channels' :
                      channels'[n] = DescriptorOf(store[ConfigFile(n)])
      ]_vars

\* C5 witness: a load in which no read failed succeeded on a bucket whose
\* index lists b while b.json is missing, and the map holds a and not b.
C5_Witness ==
    /\ phase = "serving"
    /\ lastLoad.ok
    /\ lastLoad.failed = {}
    /\ ChanB \in Indexed(store)
    /\ ConfigFile(ChanB) \notin DOMAIN store
    /\ DOMAIN channels = {ChanA}

----------------------------------------------------------------------------
\* Steps of update_channel, as seen in a pair of states

\* The suffix check, the load and the lookup ran
LoadStep(u) ==
    upc[u] = "loading" /\ upc'[u] # "loading"

\* write_file returned
UploadStep(u) ==
    upc[u] = "uploading" /\ upc'[u] # "uploading"

\* write_data returned
WriteStep(u) ==
    upc[u] = "writing" /\ upc'[u] # "writing"

\* The string ends in .tar.xz
HasArtifactSuffix(s) ==
    Len(s) > 0 /\ s[Len(s)] = TARXZ

\* The file name of a path ending in .tar.xz, without that ending
Stem(path) ==
    LET k == CHOOSE i \in 0..Len(path) :
                 /\ i = 0 \/ path[i] = SLASH
                 /\ \A j \in (i + 1)..Len(path) : path[j] # SLASH
    IN  SubSeq(path, k + 1, Len(path) - 1)

\* The channel can be loaded from the bucket when no read fails
Loadable(st, name) ==
    /\ IndexLoaded(st, {})
    /\ name \in Indexed(st)
    /\ DescriptorLoaded(st, {}, name)

\* The bucket is one the service was started on: nothing was written to it
Untouched(st) ==
    st \in InitStores

----------------------------------------------------------------------------
\* C6: a successful update_channel call that ran while no other call on its
\* channel ran replaces the stored descriptor {latest: L, previous: P} by
\* {latest: N, previous: P followed by L}, N being the name of the uploaded
\* file without .tar.xz, and changes no other object.
C6_UpdateArchives ==
    [][ \A u \in Updaters :
          ( WriteStep(u) /\ ures'.result = "Ok" /\ ~uoverlap[u] )
          => LET key == ConfigFile(uchan[u])
                 old == DescriptorOf(store[key])
             IN  store' = Put(store, key,
                              JsonDoc(None, Some(Stem(ufile[u].path)),
                                      Some(Append(old.previous, old.latest))))
      ]_vars

\* C6 witness: after the updates of a from v1 to v2 and from v2 to v3 the
\* stored descriptor of a is {latest: v3, previous: [v1, v2]}.
C6_Witness ==
    /\ ures.result = "Ok"
    /\ \A u \in Updaters : upc[u] = "idle"
    /\ store[ConfigFile(ChanA)] =
         JsonDoc(None, Some(<<"v3">>), Some(<<V1, <<"v2">>>>))

\* C7: the descriptor of a channel is written only by a call whose upload
\* has succeeded, the artifact being in the bucket by then; the step in which
\* the upload succeeds writes the artifact alone; and a call whose upload
\* fails returns the upload error and writes nothing, so that the stored
\* descriptor is the one the call loaded.
C7_UploadBeforePointer ==
    [][ /\ \A u \in Updaters :
             ( UploadStep(u) /\ upc'[u] = "idle" )
             => ( /\ ures'.result = "UploadFailed"
                  /\ store' = store
                  /\ ~uoverlap[u]
                     => DescriptorOf(store'[ConfigFile(uchan[u])]) = uchannel[u] )
        /\ \A u \in Updaters :
             ( UploadStep(u) /\ upc'[u] = "writing" )
             => store' = Put(store, Stem(ufile[u].path) \o <<TARXZ>>,
                             Blob(ufile[u].data))
        /\ \A n \in ChannelNames :
             ( /\ ConfigFile(n) \in DOMAIN store'
               /\ \/ ConfigFile(n) \notin DOMAIN store
                  \/ store'[ConfigFile(n)] # store[ConfigFile(n)] )
             => \E u \in Updaters :
                   /\ WriteStep(u)
                   /\ uchan[u] = n
                   /\ Stem(ufile[u].path) \o <<TARXZ>> \in DOMAIN store
                   /\ store'[ConfigFile(n)].latest = Some(Stem(ufile[u].path))
      ]_vars

\* C7 witness: a call returned the upload error and the bucket holds what it
\* held before any call.
C7_Witness ==
    /\ ures.result = "UploadFailed"
    /\ nUpdates = 1
    /\ Untouched(store)

\* C8: a call whose descriptor write fails after its upload returns the
\* leaked-tarball error, which no failure before the upload's success
\* returns; the artifact is in the bucket and the write changed nothing, so
\* that the stored descriptor is still the one the call loaded.
C8_LeakedTarball ==
    [][ /\ \A u \in Updaters :
             ( WriteStep(u) /\ ures'.result # "Ok" )
             => ( /\ ures'.result = "LeakedTarball"
                  /\ store' = store
                  /\ Stem(ufile[u].path) \o <<TARXZ>> \in DOMAIN store'
                  /\ store'[Stem(ufile[u].path) \o <<TARXZ>>].kind = "blob"
                  /\ ~uoverlap[u]
                     => ( /\ DescriptorOf(store'[ConfigFile(uchan[u])]).latest
                               = uchannel[u].previous[Len(uchannel[u].previous)]
                          /\ Append(DescriptorOf(store'[ConfigFile(uchan[u])])
                                       .previous,
                                    DescriptorOf(store'[ConfigFile(uchan[u])])
                                       .latest)
                               = uchannel[u].previous ) )
        /\ \A u \in Updaters :
             ( (LoadStep(u) \/ UploadStep(u)) /\ upc'[u] = "idle" )
             => ures'.result \notin {"LeakedTarball", "Ok"}
      ]_vars

\* C8 witness: a call returned the leaked-tarball error, v2.tar.xz is in the
\* bucket, and every object the bucket held before is as it was.
C8_Witness ==
    /\ ures.result = "LeakedTarball"
    /\ nUpdates = 1
    /\ <<"v2", TARXZ>> \in DOMAIN store
    /\ \E s \in InitStores :
          /\ DOMAIN store = DOMAIN s \cup {<<"v2", TARXZ>>}
          /\ \A k \in DOMAIN s : store[k] = s[k]

\* C9: a channel request whose path does not end in .tar.xz returns the
\* invalid-file error without a lookup in the slot and without a presign
\* call; an update_channel call whose file name does not end in .tar.xz
\* returns the invalid-file-ending error without uploading; and neither
\* changes the bucket.
C9_InvalidSuffixRejected ==
    [][ /\ ( ResolveStep /\ ~HasArtifactSuffix(rpath') )
           => ( /\ resp' = ErrorResponse("InvalidFile")
                /\ rpc' = "idle"
                /\ rsnap' = None
                /\ store' = store )
        /\ \A u \in Updaters :
             ( LoadStep(u) /\ ufile[u].utf8 /\ ~HasArtifactSuffix(ufile[u].path) )
             => ( /\ ures' = Result("InvalidFileEnding", FALSE)
                  /\ upc'[u] = "idle"
                  /\ store' = store )
        /\ \A u \in Updaters :
             ( LoadStep(u) /\ ~ufile[u].utf8 )
             => ( /\ ures' = Result("NotUtf8", FALSE)
                  /\ upc'[u] = "idle"
                  /\ store' = store )
      ]_vars

\* C9 witness: the last request, for the path a, got the invalid-file error,
\* the last update call got the invalid-file-ending error, and the bucket
\* holds what it held at the start.
C9_Witness ==
    /\ rpc = "idle"
    /\ rpath = ChanA
    /\ resp = ErrorResponse("InvalidFile")
    /\ ures = Result("InvalidFileEnding", FALSE)
    /\ Untouched(store)

\* C10: update_channel goes on to the upload exactly with the descriptor
\* that a load of the bucket yields for the channel, whatever the slot
\* holds; when the channel is not in the configuration it loaded (the index
\* unreadable, the channel not indexed, its descriptor missing, unparsable or
\* unread) it returns an error before the upload, and the bucket is
\* unchanged.
C10_FreshLoadDecides ==
    [][ \A u \in Updaters :
          ( LoadStep(u) /\ ufile[u].utf8 /\ HasArtifactSuffix(ufile[u].path) )
          => /\ store' = store
             /\ upc'[u] \in {"idle", "uploading"}
             /\ upc'[u] = "uploading"
                => ( /\ Loadable(store, uchan[u])
                     /\ uchannel'[u] =
                          DescriptorOf(store[ConfigFile(uchan[u])]) )
             /\ upc'[u] = "idle"
                => ( /\ ures'.result \in {"LoadFailed", "NoSuchChannel"}
                     /\ ~ures'.io => ~Loadable(store, uchan[u])
                     /\ ures'.result = "NoSuchChannel"
                        => IndexLoaded(store, {}) )
             /\ ~Loadable(store, uchan[u]) => upc'[u] = "idle"
      ]_vars

\* C10 witness: the slot holds both channels, and a call returned the
\* no-such-channel error because a read of its own load failed; nothing was
\* written to the bucket.
C10_Witness ==
    /\ phase = "serving"
    /\ DOMAIN channels = {ChanA, ChanB}
    /\ ures = Result("NoSuchChannel", TRUE)
    /\ Untouched(store)

----------------------------------------------------------------------------
\* Steps of the processes, as seen in a pair of states

\* A step of an update_channel call: the call, or the return of an await
UpdateStep ==
    upc' # upc

\* A step of request handling: the auth layer answers, or a handler runs up
\* to its presign call, or the presign call returns
RequestStep ==
    <<rpc, rroute, rpath, resp>>' # <<rpc, rroute, rpath, resp>>

----------------------------------------------------------------------------
\* C11: once main has filled the slot, the slot changes only in a pass of the
\* refresh loop whose load succeeded, a step in which no update call and no
\* request moves; every step of an update call (whatever it returns), of
\* either handler and of the auth layer leaves the slot as it was.
C11_SingleWriter ==
    [][ /\ ( phase = "serving" /\ channels' # channels )
           => ( /\ pollPc = "ticking"
                /\ lastLoad'.ok
                /\ channels' = load_channels_config(store, lastLoad'.failed).val[1]
                /\ ~UpdateStep
                /\ ~RequestStep
                /\ store' = store )
        /\ UpdateStep => channels' = channels
        /\ RequestStep => channels' = channels
      ]_vars

\* C11 witness: with the auth layer in place, an update of a to v2 has
\* succeeded and a request has been refused since, and the slot still holds
\* a at v1.
C11_Witness ==
    /\ phase = "serving"
    /\ jwtKey # None
    /\ ures.result = "Ok"
    /\ store[ConfigFile(ChanA)].latest = Some(<<"v2">>)
    /\ resp = Unauthorized
    /\ ChanA \in DOMAIN channels
    /\ channels[ChanA].latest = V1

----------------------------------------------------------------------------
\* C12 (as claimed): when update_channel(c, f) has returned Ok and no later
\* call on c has been made, a pass of the refresh loop whose load succeeds
\* publishes a snapshot that holds c with the new identifier as its latest.
C12_NextTickPropagates ==
    [][ ( /\ PollStep
          /\ lastLoad'.ok
          /\ udone # None
          /\ \A u \in Updaters :
                upc[u] = "idle" \/ uchan[u] # udone[1].chan )
        => ( /\ udone[1].chan \in DOMAIN channels'
             /\ channels'[udone[1].chan].latest = udone[1].latest )
      ]_vars

----------------------------------------------------------------------------
\* The channel has a stored descriptor that parses
Described(st, name) ==
    DescriptorLoaded(st, {}, name)

\* The artifacts the bucket holds that the latest of a stored descriptor
\* points to
Published(st) ==
    {ArtifactKey(DescriptorOf(st[ConfigFile(n)]).latest) :
        n \in {m \in ChannelNames : Described(st, m)}} \cap DOMAIN st

\* C13 (as claimed): no step changes the content stored under the key of an
\* artifact that is in the bucket and that the latest of a stored channel
\* descriptor points to.
C13_PublishedImmutable ==
    [][ \A key \in Published(store) :
          key \in DOMAIN store' /\ store'[key] = store[key]
      ]_vars

\* C14 (as claimed): in the descriptor a successful update_channel call has
\* written, the latest is not an element of previous.
C14_LatestNotArchived ==
    [][ \A u \in Updaters :
          ( WriteStep(u) /\ ures'.result = "Ok" )
          => LET d == DescriptorOf(store'[ConfigFile(uchan[u])])
             IN  \A i \in 1..Len(d.previous) : d.previous[i] # d.latest
      ]_vars

----------------------------------------------------------------------------
\* s is a prefix of t
IsPrefix(s, t) ==
    Len(s) <= Len(t) /\ SubSeq(t, 1, Len(s)) = s

\* The stored previous of the channel
StoredPrevious(st, name) ==
    DescriptorOf(st[ConfigFile(name)]).previous

\* C15: a channel with a stored descriptor keeps one, and in every step
\* other than the descriptor write of an update call that ran while another
\* call on the same channel ran, the stored previous of the channel before
\* the step is a prefix of the stored previous after it; whether calls
\* succeed or fail, nothing is removed from it or reordered in it.
C15_PreviousGrows ==
    [][ \A n \in ChannelNames :
          Described(store, n)
          => /\ Described(store', n)
             /\ ( \A u \in Updaters :
                     ( WriteStep(u) /\ uchan[u] = n ) => ~uoverlap[u] )
                => IsPrefix(StoredPrevious(store, n), StoredPrevious(store', n))
      ]_vars

\* C15 witness: after a successful update of a and then a call that failed
\* to write the descriptor, the stored previous of a has two entries.
C15_Witness ==
    /\ \A u \in Updaters : upc[u] = "idle"
    /\ nUpdates = 2
    /\ ures.result = "LeakedTarball"
    /\ Described(store, ChanA)
    /\ StoredPrevious(store, ChanA) = <<V1>>
    /\ store[ConfigFile(ChanA)].latest = Some(<<"v2">>)

----------------------------------------------------------------------------
\* The identifiers a descriptor holds
Identifiers(d) ==
    {d.latest} \cup {d.previous[i] : i \in 1..Len(d.previous)}

\* C16: update_channel writes the descriptor it built from its own load
\* whatever the bucket holds by then, and an identifier of the stored
\* descriptor is lost in a successful write (it is neither latest nor in
\* previous afterwards) only when the writing call ran while another call on
\* the channel ran.
C16_LostOnlyInRace ==
    [][ \A u \in Updaters :
          ( WriteStep(u) /\ ures'.result = "Ok" )
          => LET key == ConfigFile(uchan[u])
             IN  /\ store' = Put(store, key, SerializeChannelConfig(uchannel[u]))
                 /\ ( /\ Described(store, uchan[u])
                      /\ ~( Identifiers(DescriptorOf(store[key]))
                               \subseteq Identifiers(DescriptorOf(store'[key])) ) )
                    => uoverlap[u]
      ]_vars

\* C16 witness: two calls were made, to v2 and to v3, both returned Ok, both
\* artifacts are in the bucket, a points to v3 with v1 archived, and v2 is
\* in no stored descriptor.
C16_Witness ==
    /\ \A u \in Updaters : upc[u] = "idle"
    /\ nUpdates = 2
    /\ nOk = 2
    /\ <<"v2", TARXZ>> \in DOMAIN store
    /\ <<"v3", TARXZ>> \in DOMAIN store
    /\ store[ConfigFile(ChanA)] = JsonDoc(None, Some(<<"v3">>), Some(<<V1>>))
    /\ \A n \in ChannelNames :
          Described(store, n)
          => <<"v2">> \notin Identifiers(DescriptorOf(store[ConfigFile(n)]))

----------------------------------------------------------------------------
\* C17: until main has loaded a configuration the refresh loop is not
\* spawned and no request has been handled; main goes on to serve only with
\* the result of a successful load in the slot, and when its load fails the
\* process ends with no loop spawned and no request ever handled; the loop
\* and the handlers run only in the serving process; and the slot of the
\* serving process only ever receives the result of a successful load.
C17_ServesOnlyLoaded ==
    /\ [] ( phase # "serving" => rpc = "idle" /\ resp = NoResponse )
    /\ [] ( phase = "boot" => channels = EmptyConfig /\ pollPc = "unspawned" )
    /\ [] ( pollPc = "ticking" => lastLoad.ok \/ phase = "serving" )
    /\ [][ /\ ( StartupStep /\ ~lastLoad'.ok ) => phase' = "exited"
           /\ ( StartupStep /\ phase' = "serving" )
              => ( /\ lastLoad'.ok
                   /\ channels' =
                        load_channels_config(store, lastLoad'.failed).val[1] )
           /\ phase = "exited" => phase' = "exited"
           /\ ( RequestStep \/ PollStep ) => phase = "serving"
           /\ ( phase = "serving" /\ channels' # channels )
              => ( /\ lastLoad'.ok
                   /\ channels' =
                        load_channels_config(store, lastLoad'.failed).val[1] )
         ]_vars

\* C17 witness: a channel request is at its presign call after the last
\* refresh load failed, and the slot holds the configuration of an earlier
\* load, with a at v1.
C17_Witness ==
    /\ phase = "serving"
    /\ rpc = "signing"
    /\ rroute = "channel"
    /\ ~lastLoad.ok
    /\ rsnap = Some(channels)
    /\ ChanA \in DOMAIN channels
    /\ channels[ChanA] = ChannelConfig(V1, <<>>)

----------------------------------------------------------------------------
\* The credential of the request is missing, malformed, tampered with,
\* expired or not yet valid
Defective(headers) ==
    headers \notin ValidHeaders

\* The requests that arrive: a route and a path
Arrivals ==
    ({"channel"} \X RequestPaths) \cup ({"permanent"} \X PermanentPaths)

\* C18: a request that arrives at a service started without a key is
\* handled by the handler of its route, whatever its credential; at a service
\* started with a key, a request whose credential is defective gets the one
\* unauthorized response, whatever the defect, and no handler runs for it
\* (no path is taken, the slot is not read, nothing is presigned), while a
\* request with a valid token is handled by the handler of its route.
C18_AuthGate ==
    [][ \A headers \in Credentials, a \in Arrivals :
          Request(headers, a[1], a[2])
          => /\ ( jwtKey = None \/ ~Defective(headers) )
                => ( /\ rroute' = a[1]
                     /\ rpath' = a[2]
                     /\ resp' # Unauthorized
                     /\ a[1] = "channel" => ReqResolve(a[2])
                     /\ a[1] = "permanent" => ReqPermanent(a[2]) )
             /\ ( jwtKey # None /\ Defective(headers) )
                => ( /\ resp' = Unauthorized
                     /\ rpc' = "idle"
                     /\ rroute' = ""
                     /\ rpath' = <<>>
                     /\ rsnap' = None
                     /\ rlatest' = <<>> )
      ]_vars

\* C18 witness: a service started with a key has refused a request, and no
\* handler has run since.
C18_Witness ==
    /\ phase = "serving"
    /\ jwtKey = Some(PublicKey)
    /\ resp = Unauthorized
    /\ rpc = "idle"
    /\ rroute = ""
    /\ rsnap = None
    /\ DOMAIN channels = {ChanA}

----------------------------------------------------------------------------
\* C19: after a pass of the refresh loop whose load succeeded the slot holds
\* exactly the loaded configuration: the indexed channels whose descriptor
\* was fetched and parsed in this load, each with that descriptor, and no
\* channel of the snapshot it replaces besides; and a request for a channel
\* the slot does not hold gets the no-such-channel error.
C19_WholesaleReplace ==
    [][ /\ ( PollStep /\ lastLoad'.ok )
           => LET loaded == {n \in Indexed(store) :
                                DescriptorLoaded(store, lastLoad'.failed, n)}
              IN  /\ DOMAIN channels' = loaded
                  /\ \A n \in loaded :
                        channels'[n] = DescriptorOf(store[ConfigFile(n)])
                  /\ \A n \in DOMAIN channels \ loaded :
                        n \notin DOMAIN channels'
        /\ ( /\ ResolveStep
             /\ HasArtifactSuffix(rpath')
             /\ RequestedChannel(rpath') \notin DOMAIN channels )
           => ( resp' = ErrorResponse("NoSuchChannel") /\ rpc' = "idle" )
      ]_vars

\* C19 witness: a request for a was redirected to v1, and after a later load
\* that succeeded without the descriptor of a the slot does not hold a.
C19_Witness ==
    /\ phase = "serving"
    /\ rpc = "idle"
    /\ rpath = ChanA \o <<TARXZ>>
    /\ resp.status = "TemporaryRedirect"
    /\ lastLoad.ok
    /\ ConfigFile(ChanA) \in lastLoad.failed
    /\ ChanA \notin DOMAIN channels

----------------------------------------------------------------------------
\* The bucket holds the artifact of the identifier
ArtifactStored(st, id) ==
    ArtifactKey(id) \in DOMAIN st /\ st[ArtifactKey(id)].kind = "blob"

\* C20: in every reachable state the latest of every stored descriptor, the
\* latest of every channel of the snapshot in the slot, and the identifier a
\* request is about to presign each name an artifact the bucket holds; so
\* does the location of the last redirect of a channel request.
C20_NoDanglingLatest ==
    /\ \A n \in ChannelNames :
          Described(store, n)
          => ArtifactStored(store, DescriptorOf(store[ConfigFile(n)]).latest)
    /\ \A n \in DOMAIN channels : ArtifactStored(store, channels[n].latest)
    /\ ( rpc = "signing" /\ rroute = "channel" )
          => ArtifactStored(store, rlatest)
    /\ ( rroute = "channel" /\ resp.status = "TemporaryRedirect" )
          => \E key \in DOMAIN store :
                store[key].kind = "blob" /\ resp.location = Some(sign_request(key))

\* C20 witness: an update of a uploaded v2.tar.xz and failed to write the
\* descriptor, a still points to v1 in the bucket and in the slot, and a
\* request for a is about to presign v1.tar.xz.
C20_Witness ==
    /\ phase = "serving"
    /\ ures.result = "LeakedTarball"
    /\ ArtifactStored(store, <<"v2">>)
    /\ store[ConfigFile(ChanA)].latest = Some(V1)
    /\ rpc = "signing"
    /\ rroute = "channel"
    /\ rlatest = V1
    /\ ChanA \in DOMAIN channels
    /\ channels[ChanA].latest = V1

====
